---- MODULE Spec2Model ----
(***************************************************************************)
(* Model of the batch upload orchestration of the score_reading web        *)
(* client (src/src/components/UploadModal.tsx): the name resolver          *)
(* getUniqueFileName, the queue of QueueItem records, the per item         *)
(* two-phase runner processItem (upload, then detached poll loop), the     *)
(* bounded-concurrency scheduler runBatchLogic / processNext, the          *)
(* debounced auto-run effect and removal / clear of records.               *)
(*                                                                         *)
(* React state is modelled as the state after all queued updaters were     *)
(* applied (queue, isGlobalLoading, shouldAutoRun). `view` is the last     *)
(* committed render, whose passive effects have run: the refs (queueRef,   *)
(* isGlobalLoadingRef) hold its values and event handlers close over it.   *)
(* A render with its effects is one step; event handlers, timer callbacks  *)
(* and promise continuations may run before a due render.                  *)
(***************************************************************************)
EXTENDS Integers, Sequences, FiniteSets, TLC

(***************************************************************************)
(* Bounds of the model                                                      *)
(***************************************************************************)
MaxTasks == 3
MaxRuns == 2
MaxSuffix == 2
MaxLag == 1
PollTasks == 2
PollRuns == 1
MaxPolls == 3
MaxRemovals == 1
MaxStored == 3

(***************************************************************************)
(* Strings are sequences of one-character strings.                          *)
(***************************************************************************)
Digits == <<"0", "1", "2", "3", "4", "5", "6", "7", "8", "9">>

\* String.prototype.lastIndexOf for a one-character needle: 0-based, -1 if absent
RECURSIVE LastIndexFrom(_, _, _)
LastIndexFrom(s, c, i) ==
    IF i < 0 THEN -1
    ELSE IF s[i + 1] = c THEN i
    ELSE LastIndexFrom(s, c, i - 1)

lastIndexOf(s, c) == LastIndexFrom(s, c, Len(s) - 1)

\* String.prototype.substring(a, b) with 0-based a (inclusive), b (exclusive)
substring(s, a, b) == SubSeq(s, a + 1, b)

\* String(counter) for a non-negative integer: its decimal digits
RECURSIVE NatToString(_)
NatToString(n) ==
    IF n < 10 THEN <<Digits[n + 1]>>
    ELSE NatToString(n \div 10) \o <<Digits[(n % 10) + 1]>>

\* String.prototype.padStart(w, '0')
padStartNoPad(s, w) == s

RECURSIVE padStart(_, _)
padStart(s, w) == IF Len(s) >= w THEN s ELSE padStart(<<"0">> \o s, w)

\* the `name` and `ext` of getUniqueFileName
BaseNameOf(fileName) ==
    LET dotIndex == lastIndexOf(fileName, ".")
    IN  IF dotIndex # -1 THEN substring(fileName, 0, dotIndex) ELSE fileName

ExtOf(fileName) ==
    LET dotIndex == lastIndexOf(fileName, ".")
    IN  IF dotIndex # -1 THEN substring(fileName, dotIndex, Len(fileName)) ELSE <<>>

\* isDuplicate: full name against the queue, base name against the history
isDuplicateQueueOnly(nameToCheck, baseNameToCheck, queueNames, historyNames) ==
    nameToCheck \in queueNames

isDuplicateHistoryOnly(nameToCheck, baseNameToCheck, queueNames, historyNames) ==
    baseNameToCheck \in historyNames

isDuplicate(nameToCheck, baseNameToCheck, queueNames, historyNames) ==
    LET inQueue == nameToCheck \in queueNames
        inHistory == baseNameToCheck \in historyNames
    IN  inQueue \/ inHistory

\* the while loop of getUniqueFileName
RECURSIVE UniqueLoop(_, _, _, _, _, _, _)
UniqueLoop(newName, newBaseName, counter, name, ext, queueNames, historyNames) ==
    IF isDuplicate(newName, newBaseName, queueNames, historyNames)
    THEN LET suffix == padStart(NatToString(counter), 2)
             nb == name \o <<"_">> \o suffix
         IN  UniqueLoop(nb \o ext, nb, counter + 1, name, ext, queueNames, historyNames)
    ELSE newName

getUniqueFileName(fileName, queueNames, historyNames) ==
    UniqueLoop(fileName, BaseNameOf(fileName), 1,
               BaseNameOf(fileName), ExtOf(fileName), queueNames, historyNames)


(***************************************************************************)
(* State                                                                    *)
(***************************************************************************)
VARIABLES
    queue,               \* useState queue, all queued updaters applied
    isGlobalLoading,     \* useState isGlobalLoading
    shouldAutoRun,       \* useState shouldAutoRun
    existingNames,       \* useState existingNames (history names)
    view,                \* the last committed render, its effects run
    timer,               \* the debounce timer of the auto-run effect is armed
    armed,               \* history of the auto-run request: whether the latest
                         \* append came during a run, and after the timer was armed
    concurrency_limit,   \* localStorage item "concurrency_limit"
    runs,                \* the BatchRuns: closures of runBatchLogic invocations
    nRuns,               \* number of runBatchLogic invocations that took a snapshot
    procs,               \* the processItem invocations (upload, then poll loop)
    nextId,              \* number of File objects created by addFiles
    lag,                 \* callbacks run while a render was due
    nPolls,              \* number of answers of the status endpoint handled
    nRemovals,           \* number of confirmed removals
    nr,                  \* name resolver harness: inputs and result
    del,                 \* the last answer to a removal prompt and its DELETE request
    clr,                 \* the batch clear: its batch-delete request
    reports              \* the request of fetchRecentReports and its closure

vars == <<queue, isGlobalLoading, shouldAutoRun, existingNames, view, timer, armed,
          concurrency_limit, runs, nRuns, procs, nextId, lag, nPolls, nRemovals, nr,
          del, clr, reports>>

\* the refs, set by the effect of every render (useEffect on queue, text, isGlobalLoading)
queueRef == view.queue
isGlobalLoadingRef == view.isGlobalLoading

\* absent optional fields of a QueueItem
NoJob == <<>>
NoUrl == <<>>
NoError == ""

Origin == "http://localhost:8000"

\* names of the files the user picks
PickedNames == {<<"e", ".", "m">>}

\* values found in localStorage for "concurrency_limit"
NoValue == <<>>
StoredLimits == {NoValue, <<"1">>}

RunIds == 1..MaxRuns

(***************************************************************************)
(* Settings: the concurrency limit read by runBatchLogic                    *)
(***************************************************************************)
DigitChars == {Digits[i] : i \in 1..10}
DigitValue(c) == (CHOOSE i \in 1..10 : Digits[i] = c) - 1

\* value of the longest prefix of decimal digits of s, acc the value so far
RECURSIVE DigitsPrefixValue(_, _)
DigitsPrefixValue(s, acc) ==
    IF s = <<>> \/ Head(s) \notin DigitChars THEN acc
    ELSE DigitsPrefixValue(Tail(s), 10 * acc + DigitValue(Head(s)))

\* leading white space is skipped by parseInt
RECURSIVE TrimStart(_)
TrimStart(s) == IF s # <<>> /\ Head(s) = " " THEN TrimStart(Tail(s)) ELSE s

\* parseInt(s, 10): white space, optional sign, then the leading digits; NaN
\* without a digit
parseInt(str) ==
    LET s == TrimStart(str)
        neg == s # <<>> /\ Head(s) = "-"
        body == IF s # <<>> /\ Head(s) \in {"-", "+"} THEN Tail(s) ELSE s
    IN  IF body = <<>> \/ Head(body) \notin DigitChars
        THEN [nan |-> TRUE, val |-> 0]
        ELSE [nan |-> FALSE,
              val |-> IF neg THEN 0 - DigitsPrefixValue(body, 0)
                             ELSE DigitsPrefixValue(body, 0)]

\* CONCURRENCY_LIMIT of runBatchLogic for the stored item (NoValue: getItem gave null)
ConcurrencyLimitNoFallback(stored) ==
    parseInt(IF stored = NoValue THEN <<"2">> ELSE stored).val

ConcurrencyLimit(stored) ==
    LET storedLimit == parseInt(IF stored = NoValue THEN <<"2">> ELSE stored)
    IN  IF ~storedLimit.nan /\ storedLimit.val > 0 THEN storedLimit.val ELSE 2

(***************************************************************************)
(* Queue helpers. Indices are those of the array plus one.                  *)
(***************************************************************************)
\* { ...copy[index], <patch> } when copy[index] exists, else the queue unchanged
PatchAtUnguarded(q, index, patch) ==
    IF index \in DOMAIN q
    THEN [q EXCEPT ![index] =
            [f \in DOMAIN q[index] |->
                IF f \in DOMAIN patch THEN patch[f] ELSE q[index][f]]]
    ELSE Append(q, [id |-> 0, name |-> <<>>, isFile |-> FALSE, status |-> patch.status,
                    jobId |-> NoJob, resultUrl |-> NoUrl, error |-> NoError])

PatchAt(q, index, patch) ==
    IF index \in DOMAIN q
    THEN [q EXCEPT ![index] =
            [f \in DOMAIN q[index] |->
                IF f \in DOMAIN patch THEN patch[f] ELSE q[index][f]]]
    ELSE q

\* prev.filter((_, i) => i !== index)
RemoveAt(q, index) ==
    [i \in 1..(Len(q) - (IF index \in DOMAIN q THEN 1 ELSE 0)) |->
        IF i < index THEN q[i] ELSE q[i + 1]]

\* pendingIndices: the indices of the idle items, in order
IdleIndices(q) ==
    LET all == [i \in 1..Len(q) |-> i]
        isIdle(i) == q[i].status = "idle"
    IN  SelectSeq(all, isIdle)

NamesOf(q) == {q[i].name : i \in DOMAIN q}
IdsOf(q) == {q[i].id : i \in DOMAIN q}

\* the record of task id in q (the task is in q)
TaskOf(q, id) == q[CHOOSE i \in DOMAIN q : q[i].id = id]

(***************************************************************************)
(* processNext: the dispatch loop of one run of runBatchLogic               *)
(* S = [run, queue, procs, loading] is what the loop reads and writes.      *)
(***************************************************************************)
JobOf(r, pos) == <<r, pos>>

\* the guard of the while loop
LaunchGuardOffByOne(run) ==
    /\ run.activeCount <= run.limit
    /\ run.nextPendingRefIndex < Len(run.pendingIndices)

\* a skip test that looks for a record at the index only
SkipItemMissingOnly(index) == index \notin DOMAIN queueRef

\* const item = queueRef.current[realQueueIndex];
\* if (!item || !(item.file instanceof File)) continue
SkipItem(index) == index \notin DOMAIN queueRef \/ ~queueRef[index].isFile

LaunchGuard(run) ==
    /\ run.activeCount < run.limit
    /\ run.nextPendingRefIndex < Len(run.pendingIndices)

RECURSIVE LaunchLoop(_, _)
LaunchLoop(S, r) ==
    IF LaunchGuard(S.run)
    THEN LET pos == S.run.nextPendingRefIndex + 1
             realQueueIndex == S.run.pendingIndices[pos]
         IN  IF SkipItem(realQueueIndex)
             THEN LaunchLoop([S EXCEPT !.run.nextPendingRefIndex = pos], r)
             ELSE LaunchLoop(
                    [run |-> [S.run EXCEPT !.nextPendingRefIndex = pos,
                                           !.activeCount = @ + 1],
                     \* processItem, up to its await: the item at the index is Uploading
                     queue |-> PatchAt(S.queue, realQueueIndex, [status |-> "uploading"]),
                     procs |-> S.procs \cup
                                {[run |-> r, pos |-> pos, index |-> realQueueIndex,
                                  file |-> queueRef[realQueueIndex].id,
                                  phase |-> "upload", seen |-> ""]},
                     loading |-> S.loading], r)
    ELSE S

NoRun == [st |-> "none", pendingIndices |-> <<>>, nextPendingRefIndex |-> 0,
          activeCount |-> 0, completedCount |-> 0, limit |-> 0, snapIds |-> {}]

\* a resolved run: its closure is garbage
DoneRun == [NoRun EXCEPT !.st = "done"]

ProcessNext(S, r) ==
    IF S.run.nextPendingRefIndex >= Len(S.run.pendingIndices) /\ S.run.activeCount = 0
    THEN [S EXCEPT !.loading = FALSE, !.run = DoneRun]
    ELSE LaunchLoop(S, r)

\* runBatchLogic, invoked by the Process button or by the debounce timer
RunBatchLogic(maxRuns) ==
    IF isGlobalLoadingRef
    THEN UNCHANGED <<isGlobalLoading, queue, runs, nRuns, procs>>
    ELSE LET pendingIndices == IdleIndices(queueRef)
         IN  IF Len(pendingIndices) = 0
             THEN /\ isGlobalLoading' = FALSE
                  /\ UNCHANGED <<queue, runs, nRuns, procs>>
             ELSE /\ nRuns < maxRuns
                  /\ LET r == nRuns + 1
                         run0 == [st |-> "active", pendingIndices |-> pendingIndices,
                                  nextPendingRefIndex |-> 0, activeCount |-> 0,
                                  completedCount |-> 0,
                                  limit |-> ConcurrencyLimit(concurrency_limit),
                                  snapIds |-> {queueRef[pendingIndices[k]].id :
                                                 k \in DOMAIN pendingIndices}]
                         S == ProcessNext([run |-> run0, queue |-> queue,
                                           procs |-> procs, loading |-> TRUE], r)
                     IN  /\ isGlobalLoading' = S.loading
                         /\ queue' = S.queue
                         /\ procs' = S.procs
                         /\ runs' = [runs EXCEPT ![r] = S.run]
                         /\ nRuns' = r


(***************************************************************************)
(* Operations of the upload modal                                           *)
(***************************************************************************)
StateNow == [queue |-> queue, isGlobalLoading |-> isGlobalLoading,
             shouldAutoRun |-> shouldAutoRun, existingNames |-> existingNames]

\* a render is due
RenderDue == view # StateNow

\* an event handler, timer callback or promise continuation runs: at most MaxLag
\* of them run while a render is due
Callback ==
    /\ RenderDue => lag < MaxLag
    /\ lag' = IF RenderDue THEN lag + 1 ELSE 0

\* the loop of addFiles: one idle item per file, each name resolved against the
\* previous state plus the items created so far, and the history of the render
RECURSIVE NewItems(_, _, _, _)
NewItems(names, prev, newItems, id) ==
    IF names = <<>> THEN newItems
    ELSE LET uniqueName == getUniqueFileName(Head(names),
                               NamesOf(prev) \cup NamesOf(newItems), view.existingNames)
         IN  NewItems(Tail(names), prev,
                      Append(newItems, [id |-> id + 1, name |-> uniqueName, isFile |-> TRUE,
                                        status |-> "idle", jobId |-> NoJob,
                                        resultUrl |-> NoUrl, error |-> NoError]),
                      id + 1)

addFiles(newFiles, maxTasks) ==
    /\ Callback
    /\ nextId + Len(newFiles) <= maxTasks
    /\ queue' = queue \o NewItems(newFiles, queue, <<>>, nextId)
    /\ nextId' = nextId + Len(newFiles)
    /\ shouldAutoRun' = TRUE
    /\ armed' = [old |-> timer,
                 req |-> IF isGlobalLoading THEN "duringRun" ELSE "idle"]
    /\ UNCHANGED <<isGlobalLoading, existingNames, view, timer, concurrency_limit,
                   runs, nRuns, procs, nPolls, nRemovals, nr,
                   del, clr,
                   reports>>

\* if (shouldAutoRun && !isGlobalLoading) of the auto-run effect
AutoRunConditionIgnoresRun == shouldAutoRun

AutoRunCondition == shouldAutoRun /\ ~isGlobalLoading

\* no auto-run request is pending
NotArmed == [old |-> FALSE, req |-> "none"]

\* React commits a render of the current state and runs its effects: the refs are
\* set; the auto-run effect, when shouldAutoRun or isGlobalLoading changed, clears
\* its timer and arms a new one if (shouldAutoRun && !isGlobalLoading)
Render ==
    /\ RenderDue
    /\ view' = StateNow
    /\ lag' = 0
    /\ timer' = IF <<shouldAutoRun, isGlobalLoading>>
                     = <<view.shouldAutoRun, view.isGlobalLoading>>
                THEN timer
                ELSE AutoRunCondition
    /\ armed' = IF <<shouldAutoRun, isGlobalLoading>>
                     = <<view.shouldAutoRun, view.isGlobalLoading>>
                THEN armed
                ELSE [armed EXCEPT !.old = FALSE]
    /\ UNCHANGED <<queue, isGlobalLoading, shouldAutoRun, existingNames,
                   concurrency_limit, runs, nRuns, procs, nextId, nPolls, nRemovals, nr,
                   del, clr,
                   reports>>

\* the debounce timer fires: runBatchLogic(); setShouldAutoRun(false)
TimerFire(maxRuns) ==
    /\ Callback
    /\ timer
    /\ timer' = FALSE
    /\ armed' = NotArmed
    /\ RunBatchLogic(maxRuns)
    /\ shouldAutoRun' = FALSE
    /\ UNCHANGED <<existingNames, view, concurrency_limit, nextId, nPolls, nRemovals, nr,
                   del, clr,
                   reports>>

\* the Process button, enabled by the last render: runBatch
runBatch(maxRuns) ==
    /\ Callback
    /\ ~view.isGlobalLoading
    /\ IdleIndices(view.queue) # <<>>
    /\ RunBatchLogic(maxRuns)
    /\ UNCHANGED <<shouldAutoRun, existingNames, view, timer, armed, concurrency_limit,
                   nextId, nPolls, nRemovals, nr,
                   del, clr,
                   reports>>

\* the settings slider (or anything else) stores a concurrency limit
SetLimit(v) ==
    /\ Callback
    /\ concurrency_limit # v
    /\ concurrency_limit' = v
    /\ UNCHANGED <<queue, isGlobalLoading, shouldAutoRun, existingNames, view, timer, armed,
                   runs, nRuns, procs, nextId, nPolls, nRemovals, nr,
                   del, clr,
                   reports>>

\* no removal prompt was answered yet
NoDel == [op |-> "none", ids |-> {}, held |-> {}, pending |-> FALSE, failed |-> FALSE]

\* the job ids a queue holds: queue.map(item => item.jobId).filter(id => id !== undefined)
JobIds(q) == {q[i].jobId : i \in DOMAIN q} \ {NoJob}

\* the trash button of a rendered item, confirmed: item is the item of the
\* rendered queue, the filter acts on the current queue; a DELETE request is
\* sent if item.jobId is set (del.held: the job id of the record removed)
removeFile(index) ==
    /\ Callback
    /\ nRemovals < MaxRemovals
    /\ index \in DOMAIN view.queue
    /\ view.queue[index].status # "processing"
    /\ queue' = RemoveAt(queue, index)
    /\ nRemovals' = nRemovals + 1
    /\ LET item == view.queue[index]
           targetId == item.jobId
       IN  del' = [op |-> "remove",
                   ids |-> IF targetId # NoJob THEN {targetId} ELSE {},
                   held |-> IF index \in DOMAIN queue THEN JobIds(<<queue[index]>>) ELSE {},
                   pending |-> targetId # NoJob,
                   failed |-> FALSE]
    /\ UNCHANGED <<isGlobalLoading, shouldAutoRun, existingNames, view, timer, armed,
                   concurrency_limit, runs, nRuns, procs, nextId, nPolls, nr,
                   clr,
                   reports>>

\* the trash button of a rendered item, the prompt declined
removeDeclined(index) ==
    /\ Callback
    /\ index \in DOMAIN view.queue
    /\ view.queue[index].status # "processing"
    /\ del.op # "declined"
    /\ del' = [NoDel EXCEPT !.op = "declined"]
    /\ UNCHANGED <<queue, isGlobalLoading, shouldAutoRun, existingNames, view, timer,
                   armed, concurrency_limit, runs, nRuns, procs, nextId, nPolls,
                   nRemovals, nr, clr,
                   reports>>

\* the DELETE request of removeFile is answered, or its fetch rejects (logged)
DeleteSettled(ok) ==
    /\ Callback
    /\ del.op = "remove"
    /\ del.pending
    /\ del' = [del EXCEPT !.pending = FALSE, !.failed = ~ok]
    /\ UNCHANGED <<queue, isGlobalLoading, shouldAutoRun, existingNames, view, timer,
                   armed, concurrency_limit, runs, nRuns, procs, nextId, nPolls,
                   nRemovals, nr, clr,
                   reports>>

\* no batch clear was confirmed yet
NoClr == [st |-> "none", ids |-> {}, failed |-> FALSE]

\* setQueue([]) after the batch-delete request, answered or rejected
AfterBatchDeleteKeepsOnFailure(ok) == IF ok THEN <<>> ELSE queue

AfterBatchDelete(ok) == <<>>

\* Clear All (shown when !isGlobalLoading && queue.length > 0), confirmed: the
\* handler of the last render; a render caused by an event handler is committed
\* before the next click. With job ids it sends the batch-delete request and
\* waits, else it empties the queue at once
ClearAll ==
    /\ Callback
    /\ ~RenderDue
    /\ ~view.isGlobalLoading
    /\ Len(view.queue) > 0
    /\ clr.st # "pending"
    /\ LET idsToDelete == JobIds(view.queue)
       IN  IF idsToDelete # {}
           THEN /\ clr' = [st |-> "pending", ids |-> idsToDelete, failed |-> FALSE]
                /\ queue' = queue
           ELSE /\ clr' = [st |-> "done", ids |-> {}, failed |-> FALSE]
                /\ queue' = <<>>
    /\ UNCHANGED <<isGlobalLoading, shouldAutoRun, existingNames, view, timer, armed,
                   concurrency_limit, runs, nRuns, procs, nextId, nPolls, nRemovals,
                   nr, del,
                   reports>>

\* the batch-delete request is answered, or its fetch rejects (logged): setQueue([])
ClearSettled(ok) ==
    /\ Callback
    /\ clr.st = "pending"
    /\ queue' = AfterBatchDelete(ok)
    /\ clr' = [clr EXCEPT !.st = "done", !.failed = ~ok]
    /\ UNCHANGED <<isGlobalLoading, shouldAutoRun, existingNames, view, timer, armed,
                   concurrency_limit, runs, nRuns, procs, nextId, nPolls, nRemovals,
                   nr, del,
                   reports>>

\* .finally of processItem in processNext: free the slot, count, and tick
Finally(q, P, r) ==
    LET run1 == [runs[r] EXCEPT !.activeCount = @ - 1, !.completedCount = @ + 1]
        S == ProcessNext([run |-> run1, queue |-> q, procs |-> P,
                          loading |-> isGlobalLoading], r)
    IN  /\ queue' = S.queue
        /\ procs' = S.procs
        /\ isGlobalLoading' = S.loading
        /\ runs' = [runs EXCEPT ![r] = S.run]

\* a patch that asks whose record is at the index before it writes
PatchForSameTask(q, p, patch) ==
    IF p.index \in DOMAIN q /\ q[p.index].id = p.file THEN PatchAt(q, p.index, patch) ELSE q

\* setQueue(prev => { const n = [...prev]; if (n[index]) n[index] = {...n[index], ...patch};
\* return n }) of the invocation p: index is the parameter processItem was called with
PatchFor(q, p, patch) == PatchAt(q, p.index, patch)

\* the invocation p goes on in another phase ("failed", "stopped": it is over)
Moved(p, phase, seen) == (procs \ {p}) \cup {[p EXCEPT !.phase = phase, !.seen = seen]}

\* the upload call returns a job id
UploadOk(p) ==
    /\ Callback
    /\ p.phase = "upload"
    /\ Finally(PatchFor(queue, p,
                       [status |-> "queued", jobId |-> JobOf(p.run, p.pos)]),
               Moved(p, "pollWait", p.seen), p.run)
    /\ UNCHANGED <<shouldAutoRun, existingNames, view, timer, armed, concurrency_limit, nRuns,
                   nextId, nPolls, nRemovals, nr,
                   del, clr,
                   reports>>

\* errData.detail || 'Upload Failed'
UploadErrorMessage(detail) == IF detail # "" THEN detail ELSE "Upload Failed"

\* the upload call is rejected
UploadFail(p, detail) ==
    /\ Callback
    /\ p.phase = "upload"
    /\ Finally(PatchFor(queue, p,
                       [status |-> "error", error |-> UploadErrorMessage(detail)]),
               Moved(p, "failed", p.seen), p.run)
    /\ UNCHANGED <<shouldAutoRun, existingNames, view, timer, armed, concurrency_limit, nRuns,
                   nextId, nPolls, nRemovals, nr,
                   del, clr,
                   reports>>

\* a poll timer (1000 ms after the upload, 2000 ms after a response) fires
PollStart(p) ==
    /\ Callback
    /\ p.phase = "pollWait"
    /\ nPolls < MaxPolls
    /\ procs' = Moved(p, "polling", p.seen)
    /\ UNCHANGED <<queue, isGlobalLoading, shouldAutoRun, existingNames, view, timer, armed,
                   concurrency_limit, runs, nRuns, nextId, nPolls, nRemovals, nr,
                   del, clr,
                   reports>>

\* how far the answers to this poll loop follow the scenarios
\* [queued, processing, completed] and [queued, failed]
NextSeen(seen, answer) ==
    CASE seen = "" /\ answer = "queued" -> "q"
      [] seen = "q" /\ answer = "processing" -> "qp"
      [] seen = "qp" /\ answer = "completed" -> "qpc"
      [] seen = "q" /\ answer = "failed" -> "qf"
      [] OTHER -> "x"

\* `http://localhost:8000${jobData.result_url}`
ResultUrl(job) == <<Origin, job>>

\* jobData.error || "Job failed on server"
JobErrorMessage(reason) == IF reason # "" THEN reason ELSE "Job failed on server"

\* a poll loop that goes on after every answer, the catch block included
PhaseAfterAlwaysRetries(answer) == "pollWait"

\* after an answer of the status endpoint: setTimeout(poll, 2000) in the in-progress
\* branch only; completed returns, failed and a failed call end in the catch block
PhaseAfter(answer) == IF answer \in {"queued", "processing"} THEN "pollWait" ELSE "stopped"

\* the status endpoint answers queued or processing: patch, poll again in 2000 ms
PollInProgress(p, status) ==
    /\ Callback
    /\ p.phase = "polling"
    /\ queue' = PatchFor(queue, p, [status |-> status])
    /\ procs' = Moved(p, PhaseAfter(status), NextSeen(p.seen, status))
    /\ nPolls' = nPolls + 1
    /\ UNCHANGED <<isGlobalLoading, shouldAutoRun, existingNames, view, timer, armed,
                   concurrency_limit, runs, nRuns, nextId, nRemovals, nr,
                   del, clr,
                   reports>>

\* the status endpoint answers completed: patch, stop polling
PollCompleted(p) ==
    /\ Callback
    /\ p.phase = "polling"
    /\ queue' = PatchFor(queue, p,
                        [status |-> "done", resultUrl |-> ResultUrl(JobOf(p.run, p.pos))])
    /\ procs' = Moved(p, PhaseAfter("completed"), NextSeen(p.seen, "completed"))
    /\ nPolls' = nPolls + 1
    /\ UNCHANGED <<isGlobalLoading, shouldAutoRun, existingNames, view, timer, armed,
                   concurrency_limit, runs, nRuns, nextId, nRemovals, nr,
                   del, clr,
                   reports>>

\* the status endpoint answers failed, with a reason or without: the catch block
PollFailed(p, reason) ==
    /\ Callback
    /\ p.phase = "polling"
    /\ queue' = PatchFor(queue, p,
                        [status |-> "error", error |-> JobErrorMessage(reason)])
    /\ procs' = Moved(p, PhaseAfter("failed"),
                      IF reason # "" THEN NextSeen(p.seen, "failed") ELSE "x")
    /\ nPolls' = nPolls + 1
    /\ UNCHANGED <<isGlobalLoading, shouldAutoRun, existingNames, view, timer, armed,
                   concurrency_limit, runs, nRuns, nextId, nRemovals, nr,
                   del, clr,
                   reports>>

\* the status call fails (not ok, or the fetch rejects): the catch block
PollTransportError(p) ==
    /\ Callback
    /\ p.phase = "polling"
    /\ queue' = PatchFor(queue, p,
                        [status |-> "error", error |-> "Server Error"])
    /\ procs' = Moved(p, PhaseAfter("error"), "x")
    /\ nPolls' = nPolls + 1
    /\ UNCHANGED <<isGlobalLoading, shouldAutoRun, existingNames, view, timer, armed,
                   concurrency_limit, runs, nRuns, nextId, nRemovals, nr,
                   del, clr,
                   reports>>

\* what the servers may say
UploadDetails == {"unsupported audio"}
FailReasons == {"", "engine crashed"}

\* the files of one pick or drop
Picks == {<<n>> : n \in PickedNames} \cup {<<n, m>> : n \in PickedNames, m \in PickedNames}

NrOff == [fileName |-> <<>>, queueNames |-> {}, historyNames |-> {},
          result |-> <<>>, done |-> FALSE, again |-> <<>>, afterAdd |-> <<>>,
          calls |-> 0]

\* no listing request is outstanding
NoReports == [st |-> "none", empty |-> FALSE, data |-> <<>>]

\* GET /api/reports: what the server may list (student_name, id, url of a report)
\* (the ids of listed reports are written <<0, k>>: no run is numbered 0)
Report(k, name) == [student_name |-> name, id |-> <<0, k>>]
Listings == {<<>>, <<Report(1, <<"e">>), Report(2, <<"f">>)>>}

\* data.forEach(r => { if (r.student_name) names.add(r.student_name) })
StudentNames(data) == {data[k].student_name : k \in DOMAIN data} \ {<<>>}

\* data.slice(0, 5).map(r => ({ file: { name: r.student_name }, status: 'done',
\* resultUrl: `http://localhost:8000${r.url}`, jobId: r.id })): records without a
\* File, told apart here by ids below zero
RecentShown == 5
Recent(data) ==
    [k \in 1..(IF Len(data) < RecentShown THEN Len(data) ELSE RecentShown) |->
        [id |-> 0 - k, name |-> data[k].student_name, isFile |-> FALSE,
         status |-> "done", jobId |-> data[k].id,
         resultUrl |-> <<Origin, data[k].id>>, error |-> NoError]]

\* if (queue.length === 0) { ...; if (recent.length > 0) setQueue(recent) }: queue is
\* the constant of the render whose effect called fetchRecentReports
Seed(closureEmpty, q, data) ==
    IF closureEmpty /\ Len(data) > 0 THEN Recent(data) ELSE q

\* the listing request is answered with data
ReportsLoaded ==
    /\ Callback
    /\ reports.st = "pending"
    /\ existingNames' = StudentNames(reports.data)
    /\ queue' = Seed(reports.empty, queue, reports.data)
    /\ reports' = NoReports
    /\ UNCHANGED <<isGlobalLoading, shouldAutoRun, view, timer, armed, concurrency_limit,
                   runs, nRuns, procs, nextId, nPolls, nRemovals, nr, del, clr>>

\* the listing request fails (not ok, or the fetch rejects): logged
ReportsFailed ==
    /\ Callback
    /\ reports.st = "pending"
    /\ reports' = NoReports
    /\ UNCHANGED <<queue, isGlobalLoading, shouldAutoRun, existingNames, view, timer,
                   armed, concurrency_limit, runs, nRuns, procs, nextId, nPolls,
                   nRemovals, nr, del, clr>>

\* the user closes the modal and opens it again: the render with isOpen set runs
\* the effect, which calls the fetchRecentReports of that render
Reopen ==
    /\ Callback
    /\ ~RenderDue
    /\ reports.st = "none"
    /\ \E data \in Listings :
          reports' = [st |-> "pending", empty |-> Len(view.queue) = 0, data |-> data]
    /\ UNCHANGED <<queue, isGlobalLoading, shouldAutoRun, existingNames, view, timer,
                   armed, concurrency_limit, runs, nRuns, procs, nextId, nPolls,
                   nRemovals, nr, del, clr>>

AppInit ==
    /\ queue = <<>>
    /\ isGlobalLoading = FALSE
    /\ shouldAutoRun = FALSE
    /\ existingNames = {}
    /\ view = [queue |-> <<>>, isGlobalLoading |-> FALSE, shouldAutoRun |-> FALSE,
               existingNames |-> {}]
    /\ timer = FALSE
    /\ armed = [old |-> FALSE, req |-> "none"]
    /\ concurrency_limit \in StoredLimits
    /\ runs = [r \in RunIds |-> NoRun]
    /\ nRuns = 0
    /\ procs = {}
    /\ nextId = 0
    /\ lag = 0
    /\ nPolls = 0
    /\ nRemovals = 0
    /\ del = NoDel
    /\ clr = NoClr
    /\ reports = NoReports

Init ==
    /\ AppInit
    /\ nr = NrOff

\* every operation; the queue holds at most PollTasks files over a behaviour and
\* runBatchLogic takes at most PollRuns snapshots
Next ==
    \/ \E files \in Picks : addFiles(files, PollTasks)
    \/ Render
    \/ TimerFire(PollRuns)
    \/ runBatch(PollRuns)
    \/ \E v \in StoredLimits : SetLimit(v)
    \/ \E index \in 1..PollTasks : removeFile(index)
    \/ \E p \in procs : UploadOk(p)
    \/ \E p \in procs, detail \in UploadDetails : UploadFail(p, detail)
    \/ \E p \in procs : PollStart(p)
    \/ \E p \in procs, status \in {"queued", "processing"} : PollInProgress(p, status)
    \/ \E p \in procs : PollCompleted(p)
    \/ \E p \in procs, reason \in FailReasons : PollFailed(p, reason)
    \/ \E p \in procs : PollTransportError(p)

Spec == Init /\ [][Next]_vars

\* with the removal prompt declined, the DELETE requests and the batch clear
NextDelete ==
    \/ Next
    \/ \E index \in 1..PollTasks : removeDeclined(index)
    \/ \E ok \in BOOLEAN : DeleteSettled(ok)
    \/ ClearAll
    \/ \E ok \in BOOLEAN : ClearSettled(ok)

SpecDelete == Init /\ [][NextDelete]_vars

\* the modal from its first opening: the listing request is outstanding and its
\* closure holds the empty queue of the first render; the stored limit is 1
InitHistory ==
    /\ queue = <<>>
    /\ isGlobalLoading = FALSE
    /\ shouldAutoRun = FALSE
    /\ existingNames = {}
    /\ view = [queue |-> <<>>, isGlobalLoading |-> FALSE, shouldAutoRun |-> FALSE,
               existingNames |-> {}]
    /\ timer = FALSE
    /\ armed = NotArmed
    /\ concurrency_limit = <<"1">>
    /\ runs = [r \in RunIds |-> NoRun]
    /\ nRuns = 0
    /\ procs = {}
    /\ nextId = 0
    /\ lag = 0
    /\ nPolls = 0
    /\ nRemovals = 0
    /\ del = NoDel
    /\ clr = NoClr
    /\ nr = NrOff
    /\ \E data \in Listings : reports = [st |-> "pending", empty |-> TRUE, data |-> data]

\* appends, removals, clears and runs with the listing of the history
NextHistory ==
    \/ \E files \in Picks : addFiles(files, PollTasks)
    \/ Render
    \/ TimerFire(PollRuns)
    \/ runBatch(PollRuns)
    \/ \E index \in 1..PollTasks : removeFile(index)
    \/ ClearAll
    \/ \E ok \in BOOLEAN : ClearSettled(ok)
    \/ \E p \in procs : UploadOk(p)
    \/ \E p \in procs, detail \in UploadDetails : UploadFail(p, detail)
    \/ ReportsLoaded
    \/ ReportsFailed
    \/ Reopen

SpecHistory == InitHistory /\ [][NextHistory]_vars

\* the scheduler for any stored concurrency_limit item: the strings of at most
\* MaxStored characters (localStorage is written by the slider and by anyone)
StoredChars == {"0", "1", "2", "-", "a", " "}
StoredStrings == UNION {[1..n -> StoredChars] : n \in 0..MaxStored}

InitLimit ==
    /\ queue = <<>>
    /\ isGlobalLoading = FALSE
    /\ shouldAutoRun = FALSE
    /\ existingNames = {}
    /\ view = [queue |-> <<>>, isGlobalLoading |-> FALSE, shouldAutoRun |-> FALSE,
               existingNames |-> {}]
    /\ timer = FALSE
    /\ armed = NotArmed
    /\ concurrency_limit \in StoredStrings
    /\ runs = [r \in RunIds |-> NoRun]
    /\ nRuns = 0
    /\ procs = {}
    /\ nextId = 0
    /\ lag = 0
    /\ nPolls = 0
    /\ nRemovals = 0
    /\ del = NoDel
    /\ clr = NoClr
    /\ reports = NoReports
    /\ nr = NrOff

NextLimit ==
    \/ \E files \in Picks : addFiles(files, PollTasks)
    \/ Render
    \/ TimerFire(PollRuns)
    \/ runBatch(PollRuns)
    \/ \E v \in StoredLimits : SetLimit(v)
    \/ \E p \in procs : UploadOk(p)
    \/ \E p \in procs, detail \in UploadDetails : UploadFail(p, detail)

SpecLimit == InitLimit /\ [][NextLimit]_vars

\* the scheduler with more files and runs; the status endpoint is not asked
NextSched ==
    \/ \E files \in Picks : addFiles(files, MaxTasks)
    \/ Render
    \/ TimerFire(MaxRuns)
    \/ runBatch(MaxRuns)
    \/ \E v \in StoredLimits : SetLimit(v)
    \/ \E index \in 1..MaxTasks : removeFile(index)
    \/ \E p \in procs : UploadOk(p)
    \/ \E p \in procs, detail \in UploadDetails : UploadFail(p, detail)

SpecSched == Init /\ [][NextSched]_vars

\* the auto-run on its own: the Process button is left alone; the timers fire,
\* React renders, and every upload call is answered
NextLive ==
    \/ \E files \in Picks : addFiles(files, PollTasks)
    \/ Render
    \/ TimerFire(MaxRuns)
    \/ \E index \in 1..PollTasks : removeFile(index)
    \/ \E p \in procs : UploadOk(p)
    \/ \E p \in procs, detail \in UploadDetails : UploadFail(p, detail)

UploadSettles ==
    \E p \in procs : UploadOk(p) \/ \E detail \in UploadDetails : UploadFail(p, detail)

SpecLive ==
    /\ Init
    /\ [][NextLive]_vars
    /\ WF_vars(Render)
    /\ WF_vars(TimerFire(MaxRuns))
    /\ WF_vars(UploadSettles)

(***************************************************************************)
(* The name resolver on its own: getUniqueFileName applied to a proposed    *)
(* name, a set of queue names and a set of history names.                   *)
(***************************************************************************)
ProposedNames == {<<"e">>, <<"e", ".", "m">>, <<".", "m">>, <<"e", ".">>,
                  <<"e", ".", "e", ".", "m">>,
                  <<"e", "s", "s", "a", "y", ".", "m", "p", "3">>}

\* the proposed name with counter k as getUniqueFileName writes it (k = 0: as it is)
Suffixed(fileName, k) ==
    IF k = 0 THEN fileName
    ELSE BaseNameOf(fileName) \o <<"_">> \o padStart(NatToString(k), 2) \o ExtOf(fileName)

\* names a queue may hold, and names the history may hold (student_name is truthy)
QueuePool(fileName) ==
    {Suffixed(fileName, k) : k \in 0..MaxSuffix} \cup {BaseNameOf(fileName)}

HistoryPool(fileName) ==
    ({BaseNameOf(Suffixed(fileName, k)) : k \in 0..MaxSuffix} \cup {fileName}) \ {<<>>}

InitNames ==
    /\ AppInit
    /\ \E f \in ProposedNames :
         \E q \in SUBSET QueuePool(f), h \in SUBSET HistoryPool(f) :
            nr = [NrOff EXCEPT !.fileName = f, !.queueNames = q, !.historyNames = h]

\* resolve(proposedName, queueNames, historyNames)
Resolve ==
    /\ ~nr.done
    /\ nr' = [nr EXCEPT !.result = getUniqueFileName(nr.fileName, nr.queueNames,
                                                     nr.historyNames),
                        !.done = TRUE, !.calls = 1]
    /\ UNCHANGED <<queue, isGlobalLoading, shouldAutoRun, existingNames, view, timer, armed,
                   concurrency_limit, runs, nRuns, procs, nextId, lag, nPolls, nRemovals,
                   del, clr,
                   reports>>

\* a second call with the same arguments
ResolveAgain ==
    /\ nr.calls = 1
    /\ nr' = [nr EXCEPT !.again = getUniqueFileName(nr.fileName, nr.queueNames,
                                                    nr.historyNames),
                        !.calls = 2]
    /\ UNCHANGED <<queue, isGlobalLoading, shouldAutoRun, existingNames, view, timer, armed,
                   concurrency_limit, runs, nRuns, procs, nextId, lag, nPolls, nRemovals,
                   del, clr,
                   reports>>

\* a third call, the first result now among the queue names (as in the loop of
\* addFiles, which passes [...updatedQueue, ...newItems])
ResolveAfterAdd ==
    /\ nr.calls = 2
    /\ nr' = [nr EXCEPT !.afterAdd = getUniqueFileName(nr.fileName,
                                                       nr.queueNames \cup {nr.result},
                                                       nr.historyNames),
                        !.calls = 3]
    /\ UNCHANGED <<queue, isGlobalLoading, shouldAutoRun, existingNames, view, timer, armed,
                   concurrency_limit, runs, nRuns, procs, nextId, lag, nPolls, nRemovals,
                   del, clr,
                   reports>>

NextNames ==
    \/ Resolve
    \/ ResolveAgain
    \/ ResolveAfterAdd

SpecNames == InitNames /\ [][NextNames]_vars

(***************************************************************************)
(* Claims                                                                   *)
(***************************************************************************)

\* the invocations of run r whose upload call is outstanding
Uploading(r) == {p \in procs : p.run = r /\ p.phase = "upload"}

\* C1: while a run is active, the number of tasks whose upload call is outstanding
\* is at most the concurrency limit of the run
C1_UploadsWithinLimit ==
    \A r \in RunIds :
        runs[r].st = "active" =>
            Cardinality({p.file : p \in {x \in procs : x.phase = "upload"}})
                <= runs[r].limit

\* C2: at most one run of runBatchLogic is in flight at any instant
C2_SingleRunInFlight ==
    Cardinality({r \in RunIds : runs[r].st = "active"}) <= 1

\* C3: a run whose snapshot entries were all dispatched or skipped and that has
\* no upload outstanding has resolved (and cleared the active-run flag)
C3_RunResolves ==
    \A r \in RunIds :
        runs[r].st = "active" =>
            ~(/\ runs[r].nextPendingRefIndex >= Len(runs[r].pendingIndices)
              /\ runs[r].activeCount = 0)

\* C4: every file a run dispatches belongs to a task that was idle in the snapshot
\* the run took when it was invoked
C4_DispatchesSnapshotOnly ==
    \A p \in procs :
        runs[p.run].st = "active" => p.file \in runs[p.run].snapIds

\* C5: no step changes the status of a task that is Done or Error
C5_TerminalAbsorbing ==
    [][\A i \in DOMAIN queue :
          queue[i].status \in {"done", "error"} =>
              \A j \in DOMAIN queue' :
                  queue'[j].id = queue[i].id => queue'[j].status = queue[i].status]_vars

\* C6: the slots a run holds are exactly its outstanding upload calls, never more
\* than its limit: the first min(limit, snapshot) entries are dispatched at once,
\* an invocation whose upload returned (polling or not) holds no slot, and every
\* further entry was dispatched after as many uploads completed
C6_SlotsAreUploads ==
    \A r \in RunIds :
        runs[r].st = "active" =>
            LET run == runs[r]
                over == {p \in procs : p.run = r /\ p.phase # "upload"}
            IN  /\ run.activeCount = Cardinality(Uploading(r))
                /\ Cardinality(Uploading(r)) <= run.limit
                /\ run.completedCount = Cardinality(over)
                /\ (\/ run.nextPendingRefIndex >= run.limit
                    \/ run.nextPendingRefIndex = Len(run.pendingIndices))
                /\ \A p \in Uploading(r) :
                       p.pos > run.limit => run.completedCount >= 1

\* C6 witness: limit 2, three snapshot entries; the third is being uploaded while
\* the first two tasks are Queued, their poll loops not over
C6_Witness ==
    \E r \in RunIds :
        /\ runs[r].st = "active"
        /\ runs[r].limit = 2
        /\ Len(runs[r].pendingIndices) = 3
        /\ \E p \in Uploading(r) : p.pos = 3
        /\ \A pos \in {1, 2} :
              \E p \in procs :
                  /\ p.run = r /\ p.pos = pos /\ p.phase = "pollWait"
                  /\ p.file \in IdsOf(queue)
                  /\ TaskOf(queue, p.file).status = "queued"

\* C7: a step in which the upload of an invocation fails moves the task of that
\* invocation, and no other task, to Error with the failure message, and frees
\* the slot
C7_UploadFailureIsolated ==
    [][\A p \in procs :
          (p.phase = "upload" /\ [p EXCEPT !.phase = "failed"] \in procs') =>
              /\ \A j \in DOMAIN queue' :
                    (/\ queue'[j].status = "error"
                     /\ ~\E i \in DOMAIN queue :
                           queue[i].id = queue'[j].id /\ queue[i].status = "error")
                        => queue'[j].id = p.file
              /\ p.file \in IdsOf(queue') =>
                    /\ TaskOf(queue', p.file).status = "error"
                    /\ TaskOf(queue', p.file).error \in
                          {UploadErrorMessage(d) : d \in UploadDetails}
              /\ Cardinality({x \in procs' : x.run = p.run /\ x.phase = "upload"})
                    <= runs[p.run].limit]_vars

\* C8: while the answers to the poll loop of a task are queued, processing,
\* completed, the task is Queued, then Processing, then Done with a result
\* location, and holds the job id of its upload throughout
C8_PollScenarioDone ==
    \A p \in procs :
        (p.seen \in {"q", "qp", "qpc"} /\ p.file \in IdsOf(queue)) =>
            LET t == TaskOf(queue, p.file)
            IN  /\ t.jobId = JobOf(p.run, p.pos)
                /\ p.seen = "q" => t.status = "queued"
                /\ p.seen = "qp" => t.status = "processing"
                /\ p.seen = "qpc" => t.status = "done" /\ t.resultUrl # NoUrl

\* C9: after the answers queued, then failed with a reason, the task is in Error
\* and its error message is that reason
C9_PollScenarioFailed ==
    \A p \in procs :
        (p.seen = "qf" /\ p.file \in IdsOf(queue)) =>
            LET t == TaskOf(queue, p.file)
            IN  /\ t.status = "error"
                /\ t.error \in FailReasons \ {""}

\* C10: the name returned by getUniqueFileName is not a queue name, and its stem
\* (the name up to its last dot) is not a history name
C10_ResolveAvoidsQueueAndHistory ==
    nr.done =>
        /\ nr.result \notin nr.queueNames
        /\ BaseNameOf(nr.result) \notin nr.historyNames

\* C10 witness: the proposed name is in the queue, its first renaming collides with
\* the history, and a later counter was returned
C10_Witness ==
    /\ nr.done
    /\ nr.fileName \in nr.queueNames
    /\ BaseNameOf(Suffixed(nr.fileName, 1)) \in nr.historyNames
    /\ nr.result \notin {nr.fileName, Suffixed(nr.fileName, 1)}

\* stem_NN.ext: the name with the two-digit counter k between stem and extension
TwoDigits(k) == <<Digits[(k \div 10) + 1], Digits[(k % 10) + 1]>>
StemNN(fileName, k) == BaseNameOf(fileName) \o <<"_">> \o TwoDigits(k)
StemNNExt(fileName, k) == StemNN(fileName, k) \o ExtOf(fileName)
FreeAt(k) == /\ StemNNExt(nr.fileName, k) \notin nr.queueNames
             /\ StemNN(nr.fileName, k) \notin nr.historyNames
essay_mp3 == <<"e", "s", "s", "a", "y", ".", "m", "p", "3">>
essay_01_mp3 == <<"e", "s", "s", "a", "y", "_", "0", "1", ".", "m", "p", "3">>

\* C11: getUniqueFileName returns the proposed name when its full name is not in
\* the queue and its stem is not in the history; otherwise stem_NN.ext for the
\* smallest counter NN from 01 that is free; essay.mp3 with essay in the history
\* (and essay_01 free) gives essay_01.mp3
C11_SmallestFreeCounter ==
    nr.done =>
        /\ IF /\ nr.fileName \notin nr.queueNames
              /\ BaseNameOf(nr.fileName) \notin nr.historyNames
           THEN nr.result = nr.fileName
           ELSE \E k \in 1..(MaxSuffix + 1) :
                    /\ nr.result = StemNNExt(nr.fileName, k)
                    /\ FreeAt(k)
                    /\ \A j \in 1..(k - 1) : ~FreeAt(j)
        /\ (/\ nr.fileName = essay_mp3
            /\ SubSeq(essay_mp3, 1, 5) \in nr.historyNames
            /\ FreeAt(1)) => nr.result = essay_01_mp3

\* C11 witness: essay.mp3 with essay in the history was resolved to essay_01.mp3
C11_Witness ==
    /\ nr.done
    /\ nr.fileName = essay_mp3
    /\ nr.fileName \notin nr.queueNames
    /\ SubSeq(essay_mp3, 1, 5) \in nr.historyNames
    /\ nr.result = essay_01_mp3

\* C12: a second call of getUniqueFileName with the same arguments returns the same
\* name, and a call after that name joined the queue names returns another name
C12_DeterministicThenFresh ==
    /\ nr.calls >= 2 => nr.again = nr.result
    /\ nr.calls = 3 => nr.afterAdd # nr.result /\ nr.afterAdd \notin nr.queueNames

\* C12 witness: three calls were made, the first two returned a renamed file and
\* the third one a name with a later counter
C12_Witness ==
    /\ nr.calls = 3
    /\ nr.result = StemNNExt(nr.fileName, 1)
    /\ nr.again = nr.result
    /\ nr.afterAdd = StemNNExt(nr.fileName, 2)

\* the calls of the invocation p that are in flight: its upload or a status poll
Outstanding(p) == p.phase \in {"upload", "polling"}

\* C13: no task has two network operations (upload call, status poll call)
\* outstanding together
C13_OneOutstandingCall ==
    \A p \in procs, q \in procs :
        (p # q /\ p.file = q.file) => ~(Outstanding(p) /\ Outstanding(q))

\* C14: a step of the asynchronous handlers (dispatch, upload completion, poll
\* response) keeps the length of the queue and changes only records at the index
\* of an invocation that acted in the step: a patch aimed at an index without a
\* record changes nothing
C14_PatchFrame ==
    [][procs' # procs =>
          /\ Len(queue') = Len(queue)
          /\ \A i \in DOMAIN queue :
                queue'[i] # queue[i] =>
                    \E p \in (procs \ procs') \cup (procs' \ procs) : p.index = i]_vars

\* C14 witness: the upload of a task returned and its poll was answered queued,
\* both patches aimed at an index past the end of the queue: the record of the
\* task, at another index, is still Uploading
C14_Witness ==
    \E p \in procs :
        /\ p.seen = "q"
        /\ p.index \notin DOMAIN queue
        /\ p.file \in IdsOf(queue)
        /\ TaskOf(queue, p.file).status = "uploading"

\* C15: after every step a task that is Idle or Uploading holds no job id, a task
\* that is Queued, Processing or Done holds one, and no step replaces the job id
\* of a task by another one
C15_JobIdLifecycle ==
    [][/\ \A j \in DOMAIN queue' :
             /\ queue'[j].status \in {"idle", "uploading"} => queue'[j].jobId = NoJob
             /\ queue'[j].status \in {"queued", "processing", "done"} =>
                    queue'[j].jobId # NoJob
       /\ \A i \in DOMAIN queue, j \in DOMAIN queue' :
             (queue'[j].id = queue[i].id /\ queue[i].jobId # NoJob) =>
                 queue'[j].jobId = queue[i].jobId]_vars

C17_EveryAppendRearms ==
    (timer /\ ~RenderDue) => ~armed.old

\* C18 as stated: an auto-run request raised by an append during a run is
\* dropped: no timer is armed after an append made while a run was active, unless
\* a further append follows
C18_RequestDropped ==
    (timer /\ ~armed.old) => armed.req # "duringRun"

\* C18 amended: the request is deferred, not dropped: no timer is armed in a
\* render that shows a run active, the request flag is cleared only by the firing
\* of the timer, and the render that shows the run ended while the flag is set
\* arms the timer, with no further append
C18_RequestDeferred ==
    [][/\ (view' # view /\ isGlobalLoading') => ~timer'
       /\ (shouldAutoRun /\ ~shouldAutoRun') => (timer /\ ~timer')
       /\ (view' # view /\ view.isGlobalLoading /\ ~isGlobalLoading' /\ shouldAutoRun')
             => timer']_vars

\* C18 witness: a run has resolved, a task appended while it was active is still
\* Idle, and the timer armed by the render after the end of the run is pending
C18_Witness ==
    /\ timer
    /\ armed = [old |-> FALSE, req |-> "duringRun"]
    /\ \E r \in RunIds : runs[r].st = "done"
    /\ ~isGlobalLoading
    /\ IdleIndices(queueRef) # <<>>

\* C19: a confirmed removal takes one record out of the queue and keeps the order
\* of the others; it sends a DELETE request exactly if the record it removed holds
\* a job id, for that job id; the failure of the request leaves the queue as it
\* is; a declined prompt changes nothing and sends nothing
C19_RemovalDeletesRemote ==
    [][/\ (nRemovals' = nRemovals + 1 /\ Len(queue') < Len(queue)) =>
             /\ \E k \in DOMAIN queue :
                   /\ Len(queue') = Len(queue) - 1
                   /\ \A i \in DOMAIN queue' :
                         queue'[i] = IF i < k THEN queue[i] ELSE queue[i + 1]
             /\ del'.ids = del'.held
             /\ del'.pending = (del'.held # {})
       /\ (del.pending /\ ~del'.pending /\ del'.op = "remove") => queue' = queue
       /\ (del'.op = "declined" /\ del.op # "declined") =>
             (queue' = queue /\ ~del'.pending /\ del'.ids = {})]_vars

RECURSIVE Decimal(_)
Decimal(s) ==
    IF s = <<>> THEN 0
    ELSE 10 * Decimal(SubSeq(s, 1, Len(s) - 1)) + DigitValue(s[Len(s)])
IsNumeral(s) == s # <<>> /\ \A i \in DOMAIN s : s[i] \in DigitChars
\* no integer can be read from the string: after white space and a sign no digit
RECURSIVE Unparsable(_)
Unparsable(s) ==
    IF s = <<>> THEN TRUE
    ELSE IF Head(s) = " " THEN Unparsable(Tail(s))
    ELSE IF Head(s) \in {"-", "+"} THEN Tail(s) = <<>> \/ Tail(s)[1] \notin DigitChars
    ELSE Head(s) \notin DigitChars

\* C21: the limit of a run is at least 1; the run that starts takes a stored
\* positive numeral as it is and 2 for a missing, zero, negative or unparsable
\* item; no step changes the limit of a run in progress
C21_LimitReadOnce ==
    [][\A r \in RunIds :
          /\ runs'[r].st = "active" => runs'[r].limit >= 1
          /\ (runs[r].st = "none" /\ runs'[r].st = "active") =>
                LET s == concurrency_limit
                IN  /\ (IsNumeral(s) /\ Decimal(s) > 0) => runs'[r].limit = Decimal(s)
                    /\ (\/ s = NoValue
                        \/ IsNumeral(s) /\ Decimal(s) = 0
                        \/ Len(s) > 1 /\ Head(s) = "-" /\ IsNumeral(Tail(s))
                        \/ Unparsable(s)) => runs'[r].limit = 2
          /\ (runs[r].st = "active" /\ runs'[r].st = "active") =>
                runs'[r].limit = runs[r].limit]_vars

\* C21 witness: a run that started with the stored item 12 goes on with limit 12
\* after the item was removed from the store
C21_Witness ==
    \E r \in RunIds :
        /\ runs[r].st = "active"
        /\ runs[r].limit = 12
        /\ concurrency_limit = NoValue
        /\ Uploading(r) # {}

\* the invocation that p has become after a step
Succ(p) == CHOOSE q \in procs' : q.run = p.run /\ q.pos = p.pos

\* C22: a poll loop starts only once the upload call has returned the job id, its
\* next poll is issued only after the previous answer was handled, every in-progress
\* answer (queued, processing) is followed by one further poll, and no poll follows
\* completed, failed or a failed status call.
C22_PollLoop ==
    [][\A p \in procs :
          /\ Cardinality({q \in procs' : q.run = p.run /\ q.pos = p.pos}) = 1
          /\ Succ(p) # p =>
                CASE p.phase = "upload" ->
                       \/ UploadOk(p) /\ Succ(p).phase = "pollWait"
                       \/ (\E d \in UploadDetails : UploadFail(p, d))
                          /\ Succ(p).phase = "failed"
                  [] p.phase = "pollWait" -> PollStart(p) /\ Succ(p).phase = "polling"
                  [] p.phase = "polling" ->
                       \/ (\E s \in {"queued", "processing"} : PollInProgress(p, s))
                          /\ Succ(p).phase = "pollWait"
                       \/ (\/ PollCompleted(p)
                           \/ \E reason \in FailReasons : PollFailed(p, reason)
                           \/ PollTransportError(p))
                          /\ Succ(p).phase = "stopped"
                  [] OTHER -> FALSE]_vars

C22_Witness ==
    /\ \E p \in procs : p.phase = "pollWait" /\ p.seen = "qp"
    /\ \E p \in procs : p.phase = "stopped" /\ p.seen = "x"

\* C23: the patch of an upload completion or a poll answer is guarded by the
\* existence of its index only: it is written to whatever record is at the index,
\* the record of another task included, and a task removed while the poll loop of
\* its job is suspended lets the answer land on the task that moved to its index.
C23_PatchByIndexOnly ==
    [][\A p \in procs :
          (Succ(p) # p /\ p.phase \in {"upload", "polling"} /\ p.index \in DOMAIN queue) =>
              /\ p.index \in DOMAIN queue'
              /\ queue'[p.index].id = queue[p.index].id
              /\ queue'[p.index].status =
                    CASE UploadOk(p) -> "queued"
                      [] PollCompleted(p) -> "done"
                      [] \E s \in {"queued", "processing"} : PollInProgress(p, s) ->
                           CHOOSE s \in {"queued", "processing"} : PollInProgress(p, s)
                      [] OTHER -> "error"
              /\ PollCompleted(p) =>
                    queue'[p.index].resultUrl = ResultUrl(JobOf(p.run, p.pos))]_vars

\* C23 witness: a task was removed while the poll loop of its job was suspended
\* (the record now at its index never got that job id), and the completed answer
\* made the record of the other task Done with the result of the removed one
C23_Witness ==
    \E p \in procs :
        /\ p.phase = "stopped"
        /\ nRemovals > 0
        /\ p.index \in DOMAIN queue
        /\ queue[p.index].id # p.file
        /\ queue[p.index].status = "done"
        /\ queue[p.index].resultUrl = ResultUrl(JobOf(p.run, p.pos))
        /\ queue[p.index].jobId # JobOf(p.run, p.pos)

\* C24: after every step a task holds an error message only if its status is
\* Error, a task that enters Error holds a message, and no step changes the
\* message of a task that stays in Error
C24_ErrorMessageOnlyInError ==
    [][/\ \A j \in DOMAIN queue' :
             queue'[j].error # NoError => queue'[j].status = "error"
       /\ \A i \in DOMAIN queue, j \in DOMAIN queue' :
             (queue'[j].id = queue[i].id /\ queue'[j].status = "error") =>
                 IF queue[i].status = "error"
                 THEN queue'[j].error = queue[i].error
                 ELSE queue'[j].error # NoError]_vars

\* C25: after every step a task that is Done holds a result location, a task that
\* holds a result location is Done, and no step replaces the result location of
\* a task by another one
C25_ResultOnlyInDone ==
    [][/\ \A j \in DOMAIN queue' :
             queue'[j].status = "done" <=> queue'[j].resultUrl # NoUrl
       /\ \A i \in DOMAIN queue, j \in DOMAIN queue' :
             (queue'[j].id = queue[i].id /\ queue[i].resultUrl # NoUrl) =>
                 queue'[j].resultUrl = queue[i].resultUrl]_vars

\* C26: a record made from the history listing (no File, status Done) is never
\* submitted: every upload call carries the File of the record the Scheduler read
\* at the index, a position whose record is not a File is passed without an
\* invocation, and the slots in use are the upload calls in flight. (What the
\* Scheduler reads is queueRef: the status shown by such a record is not covered.)
C26_HistoryNeverSubmitted ==
    [][/\ \A p \in procs' \ procs :
             p.phase = "upload" =>
                 /\ p.index \in DOMAIN queueRef
                 /\ queueRef[p.index].isFile
                 /\ queueRef[p.index].id = p.file
       /\ \A p \in procs' : p.file > 0
       /\ \A r \in RunIds :
             /\ runs'[r].st = "active" =>
                   runs'[r].activeCount =
                       Cardinality({p \in procs' : p.run = r /\ p.phase = "upload"})
             /\ (runs[r].st = "active" /\ runs'[r].st = "active") =>
                   \A pos \in (runs[r].nextPendingRefIndex + 1)..runs'[r].nextPendingRefIndex :
                       LET index == runs[r].pendingIndices[pos]
                       IN  (index \in DOMAIN queueRef /\ ~queueRef[index].isFile) =>
                               ~\E p \in procs' : p.run = r /\ p.pos = pos]_vars

\* C26 witness: a run has passed a position of its snapshot whose index holds a
\* record of the history, untouched, and made no invocation for it
C26_Witness ==
    \E r \in RunIds :
        /\ runs[r].st = "active"
        /\ \E pos \in 1..runs[r].nextPendingRefIndex :
              LET index == runs[r].pendingIndices[pos]
              IN  /\ index \in DOMAIN queue
                  /\ index \in DOMAIN queueRef
                  /\ queueRef[index] = queue[index]
                  /\ ~queue[index].isFile
                  /\ queue[index].status = "done"
                  /\ ~\E p \in procs : p.run = r /\ p.pos = pos

\* the names of the historical records: those of the listing loaded last and
\* those of the listing on its way
HistoricalNames ==
    existingNames \cup (IF reports.st = "pending" THEN StudentNames(reports.data) ELSE {})

\* C27: a task created by an append gets a name that differs from the name of
\* every record already in the queue and of every file created earlier in the
\* append, and a stem that differs from every historical name, whenever the
\* append comes relative to the loading of the listing
C27_AppendedNamesFresh ==
    [][nextId' > nextId =>
          \A j \in (Len(queue) + 1)..Len(queue') :
              /\ \A i \in 1..(j - 1) : queue'[i].name # queue'[j].name
              /\ BaseNameOf(queue'[j].name) \notin HistoricalNames]_vars

\* C30: the queue is seeded with the records of the listing only if it is empty
\* when the seed is applied: handling the answer of the listing request removes
\* no record from the queue
C30_SeedOnlyWhenEmpty ==
    [][(reports.st = "pending" /\ reports'.st = "none") =>
          /\ queue' # queue => queue = <<>>
          /\ \A i \in DOMAIN queue : queue[i].id \in IdsOf(queue')]_vars

\* C29: a task is submitted at most once, and the record at the index the
\* Scheduler dispatches is Idle in the queue at that moment
C29_SubmittedOnceFromIdle ==
    [][\A p \in procs' \ procs :
          p.phase = "upload" =>
              /\ \A q \in procs' : q.file = p.file => q = p
              /\ p.index \in DOMAIN queue
              /\ queue[p.index].status = "idle"]_vars

\* the file of task t was handed to processItem
Dispatched(t) == \E p \in procs : p.file = t

\* C28: with timers that fire, renders that are committed and upload calls that
\* are answered, every task that is Idle in the queue is eventually dispatched,
\* unless it is removed; so is a task appended while a run is active
C28_EventuallyDispatched ==
    \A t \in 1..PollTasks :
        (t \in IdsOf(queue) /\ TaskOf(queue, t).status = "idle")
            ~> (t \notin IdsOf(queue) \/ Dispatched(t))

====
